---- MODULE Spec2Model ----
(***************************************************************************)
(* Model of SignalProcessor (src/src/cpp/signal_processor.cpp): the MFCC   *)
(* engine with its constructor-built mel filterbank and the processSamples *)
(* pipeline (pad, Hamming window, FFT, power spectrum, mel filterbank,     *)
(* log, DCT).                                                              *)
(*                                                                         *)
(* Vectors are functions over 0..size-1, so indices are the C++ indices.   *)
(* Floating-point values are modelled by what the claims depend on:        *)
(*   - a filter weight a / float(b) is the pair <<a, b>>; <<a, 0>> is the   *)
(*     result of a division by zero (NaN or Inf);                          *)
(*   - a Hamming weight 0.54 - 0.46*cos(2*pi*i/d) is the pair <<i, d>>;     *)
(*     d = 0 is the NaN that 0.0/0 produces;                               *)
(*   - a spectrum value is the set of frame indices it was computed from   *)
(*     and whether it is NaN (NaN propagates through every operation).     *)
(* The constructor's arguments (2048, 44100, 40) are scaled down to        *)
(* fftSize = 2^LogFFT and NumBands filters; the float mapping mel -> Hz -> *)
(* bin is abstracted to its result, a non-decreasing sequence of bins.     *)
(***************************************************************************)
EXTENDS Integers, Sequences, FiniteSets, TLC

LogFFT == 2

NumBands == 2

MaxLen == 5

numCoeffs == 13

TwoPow30 == 1073741824

IntMax == 2147483647

Callers == {"a", "b"}

fftSize == 2 ^ LogFFT

filterLength == fftSize \div 2 + 1

VARIABLES
    constructed,    \* TRUE once SignalProcessor() has returned
    melFilterbank,  \* the member: vector of NumBands filters
    bins,           \* per band <<binLeft, binCenter, binRight>> used to build it
    pc,             \* per caller: position inside processSamples
    samples,        \* per caller: the caller's argument vector
    paddedSamples,  \* per caller: local copy, padded then windowed
    spectrum,       \* per caller: computeFFT's result and access trace
    powerSpectrum,  \* per caller
    melEnergies,    \* per caller
    result,         \* per caller: the returned coefficient vector
    argN,           \* nextPowerOf2 run alone: its int argument n
    power,          \* nextPowerOf2 run alone: its local int power
    npPc            \* nextPowerOf2 run alone: "loop", "returned" or "trapped"

vars == <<constructed, melFilterbank, bins, pc, samples, paddedSamples, spectrum,
          powerSpectrum, melEnergies, result, argN, power, npPc>>

callVars == <<pc, samples, paddedSamples, spectrum, powerSpectrum,
              melEnergies, result>>

npVars == <<argN, power, npPc>>

----------------------------------------------------------------------------
(* Vectors *)

Size(v) == Cardinality(DOMAIN v)

EmptyVec == [i \in {} |-> 0]

Min(a, b) == IF a < b THEN a ELSE b

Max(a, b) == IF a < b THEN b ELSE a

\* std::vector::resize(k, 0.0f) on a copy of v
resize(v, k) == [i \in 0..(k - 1) |-> IF i < Size(v) THEN v[i] ELSE 0]

----------------------------------------------------------------------------
(* nextPowerOf2: int arithmetic, 32 bits *)

\* power *= 2 overflows int
DoubleOverflows(p) == p >= TwoPow30 \/ p < -TwoPow30

\* power * 2 in two's complement wrap-around, computed inside 32 bits
DoubleWrapped(p) ==
    IF p >= TwoPow30 THEN ((p - TwoPow30) * 2 - TwoPow30) - TwoPow30
    ELSE IF p < -TwoPow30 THEN ((p + TwoPow30) * 2 + TwoPow30) + TwoPow30
    ELSE p * 2

\* the loop with the test written power <= n
RECURSIVE nextPowerOf2Loop_Inclusive(_, _)
nextPowerOf2Loop_Inclusive(p, n) ==
    IF p <= n THEN nextPowerOf2Loop_Inclusive(DoubleWrapped(p), n) ELSE p

RECURSIVE nextPowerOf2Loop(_, _)
nextPowerOf2Loop(p, n) ==
    IF p < n THEN nextPowerOf2Loop(DoubleWrapped(p), n) ELSE p

nextPowerOf2(n) == nextPowerOf2Loop(1, n)

----------------------------------------------------------------------------
(* applyHammingWindow *)

\* 0.54f - 0.46f * cos(2.0f * M_PI * i / (n - 1)): the quotient i / (n - 1)
hammingWeight(i, n) == <<i, n - 1>>

applyHammingWindow(v) ==
    [i \in DOMAIN v |-> [x |-> v[i], w |-> hammingWeight(i, Size(v))]]

WeightIsNaN(w) == w[2] = 0

\* cos(pi) = -1, the only angle where the weight is 0.54 + 0.46 = 1
WeightIsOne(w) == w[2] # 0 /\ 2 * w[1] = w[2]

----------------------------------------------------------------------------
(* initMelFilterbank *)

\* floor(hz * filterLength / (sampleRate/2)) of the NumBands + 2 band edges
RawBinSeqs ==
    {r \in [0..(NumBands + 1) -> 0..filterLength] :
        \A i \in 0..NumBands : r[i] <= r[i + 1]}

\* the clamp without its upper limit
clampBin_NoUpper(bin) == Max(0, bin)

clampBin(bin) == Max(0, Min(filterLength - 1, bin))

ZeroWeight == <<0, 1>>

\* the rising loop without its zero-denominator test
risingSegment_Unguarded(filter, binLeft, binCenter) ==
    [j \in DOMAIN filter |->
        IF binLeft <= j /\ j <= binCenter
        THEN <<j - binLeft, binCenter - binLeft>>
        ELSE filter[j]]

risingSegment(filter, binLeft, binCenter) ==
    [j \in DOMAIN filter |->
        IF binLeft <= j /\ j <= binCenter /\ binCenter > binLeft
        THEN <<j - binLeft, binCenter - binLeft>>
        ELSE filter[j]]

fallingSegment(filter, binCenter, binRight) ==
    [j \in DOMAIN filter |->
        IF binCenter <= j /\ j <= binRight /\ binRight > binCenter
        THEN <<binRight - j, binRight - binCenter>>
        ELSE filter[j]]

bandBins(raw, i) ==
    <<clampBin(raw[i]), clampBin(raw[i + 1]), clampBin(raw[i + 2])>>

buildFilter(b) ==
    fallingSegment(
        risingSegment([j \in 0..(filterLength - 1) |-> ZeroWeight], b[1], b[2]),
        b[2], b[3])

initMelFilterbank(raw) ==
    [i \in 0..(NumBands - 1) |-> buildFilter(bandBins(raw, i))]

----------------------------------------------------------------------------
(* computeFFT *)

\* A read outside the vector yields an unspecified value, tagged index -1.
OutOfRange == [src |-> {-1}, nan |-> TRUE]

ReadAt(v, k) == IF k \in DOMAIN v THEN v[k] ELSE OutOfRange

WriteAt(v, k, x) == IF k \in DOMAIN v THEN [v EXCEPT ![k] = x] ELSE v

\* while ((1 << bits) < n) bits++
RECURSIVE bitsLoop(_, _)
bitsLoop(bits, n) == IF 2 ^ bits < n THEN bitsLoop(bits + 1, n) ELSE bits

\* rev = (rev << 1) | ((i >> j) & 1) for j = 0 .. bits-1
RECURSIVE reverseBits(_, _, _, _)
reverseBits(rev, i, j, bits) ==
    IF j < bits
    THEN reverseBits(rev * 2 + ((i \div (2 ^ j)) % 2), i, j + 1, bits)
    ELSE rev

\* the swap test written i != rev: every pair is swapped twice
swapNeeded_Unordered(i, rev) == i # rev

swapNeeded(i, rev) == i < rev

\* for (i = 0; i < n; i++) { rev = ...; if (i < rev) swap(output[i], output[rev]); }
RECURSIVE bitReversal(_, _, _, _)
bitReversal(st, i, n, bits) ==
    IF i < n
    THEN LET rev == reverseBits(0, i, 0, bits)
             nxt == IF swapNeeded(i, rev)
                    THEN [st EXCEPT
                            !.output = WriteAt(WriteAt(st.output, i, ReadAt(st.output, rev)),
                                               rev, ReadAt(st.output, i)),
                            !.swaps = Append(st.swaps, <<i, rev>>)]
                    ELSE st
         IN  bitReversal(nxt, i + 1, n, bits)
    ELSE st

\* u = output[a]; v = w * output[b]; output[a] = u + v; output[b] = u - v
butterfly(st, a, b) ==
    LET u == ReadAt(st.output, a)
        v == ReadAt(st.output, b)
        s == [src |-> u.src \cup v.src, nan |-> u.nan \/ v.nan]
        k == Len(st.passes)
    IN  [st EXCEPT
            !.output = WriteAt(WriteAt(st.output, a, s), b, s),
            !.passes[k].pairs = Append(st.passes[k].pairs, <<a, b>>)]

\* for (j = 0; j < len / 2; j++)
RECURSIVE butterflyInner(_, _, _, _)
butterflyInner(st, i, j, len) ==
    IF j < len \div 2
    THEN butterflyInner(butterfly(st, i + j, i + j + len \div 2), i, j + 1, len)
    ELSE st

\* for (i = 0; i < n; i += len)
RECURSIVE butterflyBlocks(_, _, _, _)
butterflyBlocks(st, i, len, n) ==
    IF i < n
    THEN butterflyBlocks(butterflyInner(st, i, 0, len), i + len, len, n)
    ELSE st

\* for (len = 2; len <= n; len <<= 1)
RECURSIVE butterflyPasses(_, _, _)
butterflyPasses(st, len, n) ==
    IF len <= n
    THEN butterflyPasses(
            butterflyBlocks(
                [st EXCEPT !.passes = Append(st.passes, [len |-> len, pairs |-> <<>>])],
                0, len, n),
            len * 2, n)
    ELSE st

\* The result, with the trace of what the function did: the vector right
\* after the bit-reversal loop, the swaps made, and the pairs of every pass.
computeFFT(input) ==
    LET n == Size(input)
        st0 == [output |-> [i \in DOMAIN input |->
                              [src |-> {i}, nan |-> WeightIsNaN(input[i].w)]],
                swaps |-> <<>>, permuted |-> EmptyVec, passes |-> <<>>]
        st1 == bitReversal(st0, 0, n, bitsLoop(0, n))
    IN  butterflyPasses([st1 EXCEPT !.permuted = st1.output], 2, n)

----------------------------------------------------------------------------
(* getPowerSpectrum, applyMelFilterbank, log, computeDCT *)

\* power[i] = std::norm(spectrum[i]) for i < spectrum.size() / 2 + 1
getPowerSpectrum(spec) ==
    [i \in 0..(Size(spec) \div 2) |-> ReadAt(spec, i)]

\* energy += powerSpectrum[j] * filter[j] for j < min(sizes);
\* terms is the number of products accumulated
applyMelFilterbank(fb, ps) ==
    [i \in DOMAIN fb |->
        LET m == Min(Size(ps), Size(fb[i]))
        IN  [terms |-> m,
             nan |-> \E j \in 0..(m - 1) : ps[j].nan \/ fb[i][j][2] = 0]]

\* applyMelFilterbank shrinking each filter to the spectrum it was given
filterbankAfterApply_Truncated(fb, ps) ==
    [i \in DOMAIN fb |->
        [j \in 0..(Min(Size(ps), Size(fb[i])) - 1) |-> fb[i][j]]]

\* The member after applyMelFilterbank: the function only reads it.
filterbankAfterApply(fb, ps) == fb

\* energy = std::log(std::max(energy, 1e-10f)); std::max(NaN, x) is NaN
logEnergies(me) == [i \in DOMAIN me |-> [nan |-> me[i].nan]]

\* one coefficient per input band instead of numCoeffs
dctLength_InputSize(N) == N

dctLength(N) == numCoeffs

\* sum over n of input[n] * cos(...), times the normalisation factor
\* (1/sqrt(0) = inf and 0 * inf = NaN when the input is empty)
computeDCT(input) ==
    [k \in 0..(dctLength(Size(input)) - 1) |->
        IF Size(input) = 0 \/ \E n \in DOMAIN input : input[n].nan
        THEN "NaN" ELSE "number"]

----------------------------------------------------------------------------
(* State machine *)

\* Argument vectors: len distinct non-zero samples, positive or negative
Inputs == {[i \in 0..(len - 1) |-> v * (i + 1)] : len \in 0..MaxLen, v \in {1, -1}}

NoTrace == [output |-> EmptyVec, swaps |-> <<>>, permuted |-> EmptyVec, passes |-> <<>>]

\* No call has started.
InitCallers ==
    /\ pc = [c \in Callers |-> "idle"]
    /\ samples = [c \in Callers |-> EmptyVec]
    /\ paddedSamples = [c \in Callers |-> EmptyVec]
    /\ spectrum = [c \in Callers |-> NoTrace]
    /\ powerSpectrum = [c \in Callers |-> EmptyVec]
    /\ melEnergies = [c \in Callers |-> EmptyVec]
    /\ result = [c \in Callers |-> EmptyVec]

\* The member is default-constructed (empty); the constructor body has not run.
Init ==
    /\ constructed = FALSE
    /\ melFilterbank = EmptyVec
    /\ bins = EmptyVec
    /\ InitCallers
    /\ argN = 0 /\ power = 1 /\ npPc = "returned"

\* SignalProcessor(): initMelFilterbank, with the bins its float mapping gives
Construct(raw) ==
    /\ ~constructed
    /\ constructed' = TRUE
    /\ melFilterbank' = initMelFilterbank(raw)
    /\ bins' = [i \in 0..(NumBands - 1) |-> bandBins(raw, i)]
    /\ UNCHANGED <<callVars, npVars>>

\* processSamples is entered; lines 15-20: pad to a power of two and window
Call(c, s) ==
    /\ constructed
    /\ pc[c] \in {"idle", "returned"}
    /\ pc' = [pc EXCEPT ![c] = "windowed"]
    /\ samples' = [samples EXCEPT ![c] = s]
    /\ paddedSamples' = [paddedSamples EXCEPT
            ![c] = applyHammingWindow(resize(s, nextPowerOf2(Size(s))))]
    /\ spectrum' = [spectrum EXCEPT ![c] = NoTrace]
    /\ powerSpectrum' = [powerSpectrum EXCEPT ![c] = EmptyVec]
    /\ melEnergies' = [melEnergies EXCEPT ![c] = EmptyVec]
    /\ result' = [result EXCEPT ![c] = EmptyVec]
    /\ UNCHANGED <<constructed, melFilterbank, bins, npVars>>

\* line 23
FFT(c) ==
    /\ pc[c] = "windowed"
    /\ pc' = [pc EXCEPT ![c] = "transformed"]
    /\ spectrum' = [spectrum EXCEPT ![c] = computeFFT(paddedSamples[c])]
    /\ UNCHANGED <<constructed, melFilterbank, bins, samples, paddedSamples, powerSpectrum,
                   melEnergies, result, npVars>>

\* line 26
Power(c) ==
    /\ pc[c] = "transformed"
    /\ pc' = [pc EXCEPT ![c] = "power"]
    /\ powerSpectrum' = [powerSpectrum EXCEPT ![c] = getPowerSpectrum(spectrum[c].output)]
    /\ UNCHANGED <<constructed, melFilterbank, bins, samples, paddedSamples, spectrum,
                   melEnergies, result, npVars>>

\* line 29
Mel(c) ==
    /\ pc[c] = "power"
    /\ pc' = [pc EXCEPT ![c] = "filtered"]
    /\ melEnergies' = [melEnergies EXCEPT
            ![c] = applyMelFilterbank(melFilterbank, powerSpectrum[c])]
    /\ melFilterbank' = filterbankAfterApply(melFilterbank, powerSpectrum[c])
    /\ UNCHANGED <<constructed, bins, samples, paddedSamples, spectrum,
                   powerSpectrum, result, npVars>>

\* lines 32-37
Return(c) ==
    /\ pc[c] = "filtered"
    /\ pc' = [pc EXCEPT ![c] = "returned"]
    /\ result' = [result EXCEPT ![c] = computeDCT(logEnergies(melEnergies[c]))]
    /\ UNCHANGED <<constructed, melFilterbank, bins, samples, paddedSamples, spectrum,
                   powerSpectrum, melEnergies, npVars>>

Next ==
    \/ \E raw \in RawBinSeqs : Construct(raw)
    \/ \E c \in Callers :
          \/ \E s \in Inputs : Call(c, s)
          \/ FFT(c)
          \/ Power(c)
          \/ Mel(c)
          \/ Return(c)

Spec == Init /\ [][Next]_vars

----------------------------------------------------------------------------
(* nextPowerOf2 run alone, one loop iteration per step, over the int range *)

LengthsInt32 == (0..MaxLen) \cup {TwoPow30 - 1, TwoPow30, TwoPow30 + 1, IntMax}

InitNextPowerOf2 ==
    /\ constructed = TRUE
    /\ \E raw \in RawBinSeqs :
          /\ melFilterbank = initMelFilterbank(raw)
          /\ bins = [i \in 0..(NumBands - 1) |-> bandBins(raw, i)]
    /\ InitCallers
    /\ argN \in LengthsInt32 /\ power = 1 /\ npPc = "loop"

\* while (power < n) power *= 2, the product representable
DoubleStep ==
    /\ npPc = "loop" /\ power < argN /\ ~DoubleOverflows(power)
    /\ power' = power * 2
    /\ UNCHANGED <<constructed, melFilterbank, bins, callVars, argN, npPc>>

\* the same iteration when power * 2 is not representable: signed overflow
\* is undefined; the build either wraps (i32.mul) or traps (overflow checks)
OverflowStep ==
    /\ npPc = "loop" /\ power < argN /\ DoubleOverflows(power)
    /\ \/ power' = DoubleWrapped(power) /\ npPc' = npPc
       \/ power' = power /\ npPc' = "trapped"
    /\ UNCHANGED <<constructed, melFilterbank, bins, callVars, argN>>

\* return power
ExitStep ==
    /\ npPc = "loop" /\ ~(power < argN)
    /\ npPc' = "returned"
    /\ UNCHANGED <<constructed, melFilterbank, bins, callVars, argN, power>>

NextNextPowerOf2 == DoubleStep \/ OverflowStep \/ ExitStep

SpecNextPowerOf2 == InitNextPowerOf2 /\ [][NextNextPowerOf2]_vars

----------------------------------------------------------------------------
(* Properties *)

InCall(c) == pc[c] # "idle"

Started(c, stages) == pc[c] \in stages

AfterFFT == {"transformed", "power", "filtered", "returned"}

AfterPower == {"power", "filtered", "returned"}

IsPowerOfTwo(L) == \E k \in 0..30 : L = 2 ^ k

Bit(x, j) == (x \div (2 ^ j)) % 2

\* the bits-wide bit reversal of i, from its definition
BitReversed(i, bits) ==
    CHOOSE r \in 0..(2 ^ bits - 1) :
        \A j \in 0..(bits - 1) : Bit(r, bits - 1 - j) = Bit(i, j)

Log2(L) == CHOOSE k \in 0..30 : L = 2 ^ k

\* C1: every returned coefficient vector has exactly numCoeffs = 13 entries,
\* whatever the length of the input and of the padded frame.
C1_OutputLengthIsNumCoeffs ==
    \A c \in Callers : pc[c] = "returned" => Size(result[c]) = 13

C1_Witness ==
    \E c, d \in Callers :
        /\ pc[c] = "returned" /\ pc[d] = "returned"
        /\ Size(samples[c]) # Size(samples[d])
        /\ Size(paddedSamples[c]) # Size(paddedSamples[d])
        /\ Size(result[c]) = 13 /\ Size(result[d]) = 13

\* C2: a call with an empty sample sequence produces no coefficient vector
\* (it ends in an InputError), the filterbank is unchanged, and the result of
\* a call with a non-empty input depends on that input and the filterbank only.
C2_EmptyInputIsRejected ==
    /\ \A c \in Callers :
          (pc[c] = "returned" /\ Size(samples[c]) = 0) => Size(result[c]) = 0
    /\ melFilterbank = [i \in DOMAIN bins |-> buildFilter(bins[i])]
    /\ \A c, d \in Callers :
          (pc[c] = "returned" /\ pc[d] = "returned" /\ samples[c] = samples[d])
              => result[c] = result[d]

\* C3: the power spectrum handed to applyMelFilterbank has the length of
\* every filter (fftSize/2 + 1), for every input length, and every filter is
\* applied over its whole length.
C3_PowerSpectrumMatchesFilters ==
    \A c \in Callers :
        /\ Started(c, AfterPower) =>
              \A i \in DOMAIN melFilterbank :
                  Size(powerSpectrum[c]) = Size(melFilterbank[i])
        /\ Started(c, {"filtered", "returned"}) =>
              \A i \in DOMAIN melFilterbank :
                  melEnergies[c][i].terms = Size(melFilterbank[i])

\* C4: no Hamming weight is the result of a division by zero, and for a
\* padded length of 1 the single weight is 1.
C4_HammingWeightsDefined ==
    \A c \in Callers :
        InCall(c) =>
            \A i \in DOMAIN paddedSamples[c] :
                /\ ~WeightIsNaN(paddedSamples[c][i].w)
                /\ Size(paddedSamples[c]) = 1 => WeightIsOne(paddedSamples[c][i].w)

C5_FrameInv ==
    \A c \in Callers :
        (InCall(c) /\ Size(samples[c]) >= 1) =>
            LET n == Size(samples[c])
                L == Size(paddedSamples[c])
            IN  /\ IsPowerOfTwo(L) /\ L >= n /\ L \div 2 < n
                /\ \A i \in 0..(n - 1) : paddedSamples[c][i].x = samples[c][i]
                /\ \A i \in n..(L - 1) : paddedSamples[c][i].x = 0
                /\ Started(c, AfterFFT) =>
                      /\ Size(spectrum[c].output) = L
                      /\ IsPowerOfTwo(Size(spectrum[c].output))

\* C5: for a non-empty input of length n the frame given to computeFFT has
\* length L, the smallest power of two >= n, its first n entries come from
\* the samples and the other L - n from zero padding, and the caller's
\* samples are not changed while the call runs.
C5_PaddedFrame ==
    /\ []C5_FrameInv
    /\ [][\A c \in Callers : (InCall(c) /\ pc[c] # "returned") => samples'[c] = samples[c]]_vars

C5_Witness ==
    \E c \in Callers :
        /\ Started(c, AfterFFT)
        /\ Size(samples[c]) = 3 /\ Size(paddedSamples[c]) = 4
        /\ paddedSamples[c][2].x = samples[c][2] /\ paddedSamples[c][3].x = 0
        /\ Size(spectrum[c].output) = 4

Locals(c) ==
    <<pc[c], samples[c], paddedSamples[c], spectrum[c], powerSpectrum[c],
      melEnergies[c], result[c]>>

\* C6: no step of any call, in any interleaving, changes the filterbank, and
\* a step of one call changes no state of another call.
C6_FilterbankNeverModified ==
    [][/\ constructed => melFilterbank' = melFilterbank
       /\ \A c, d \in Callers :
             (c # d /\ Locals(c)' # Locals(c)) => Locals(d)' = Locals(d)]_vars

C6_Witness ==
    \E c, d \in Callers :
        /\ c # d /\ pc[c] = "returned" /\ pc[d] = "filtered"
        /\ Size(powerSpectrum[c]) # Size(powerSpectrum[d])
        /\ melFilterbank = [i \in DOMAIN bins |-> buildFilter(bins[i])]

\* C7: every filter has 0 <= binLeft <= binCenter <= binRight <=
\* filterLength - 1, weights in [0, 1], weight 0 outside [binLeft, binRight],
\* and weight 1 at binCenter when binLeft < binCenter < binRight.
C7_FiltersWellFormed ==
    \A i \in DOMAIN melFilterbank :
        LET f == melFilterbank[i]
            binLeft == bins[i][1]
            binCenter == bins[i][2]
            binRight == bins[i][3]
        IN  /\ 0 <= binLeft /\ binLeft <= binCenter /\ binCenter <= binRight
            /\ binRight <= Size(f) - 1
            /\ \A j \in DOMAIN f :
                  /\ f[j][2] > 0 /\ 0 <= f[j][1] /\ f[j][1] <= f[j][2]
                  /\ (j < binLeft \/ j > binRight) => f[j][1] = 0
            /\ (binLeft < binCenter /\ binCenter < binRight) =>
                  f[binCenter][1] = f[binCenter][2]

C7_Witness ==
    \E i, k \in DOMAIN melFilterbank :
        /\ bins[i][1] < bins[i][2] /\ bins[i][2] < bins[i][3]
        /\ melFilterbank[i][bins[i][2]] = <<1, 1>>
        /\ bins[k][3] = filterLength - 1

\* C8 as stated: no division has a zero denominator, and the weights of a
\* degenerate segment (binCenter == binLeft, binRight == binCenter) are 0.
C8_DegenerateSegmentsAreZero ==
    \A i \in DOMAIN melFilterbank :
        LET f == melFilterbank[i]
            binLeft == bins[i][1]
            binCenter == bins[i][2]
            binRight == bins[i][3]
        IN  /\ \A j \in DOMAIN f : f[j][2] # 0
            /\ binCenter = binLeft => \A j \in binLeft..binCenter : f[j][1] = 0
            /\ binRight = binCenter => \A j \in binCenter..binRight : f[j][1] = 0

\* C8 (amended): no division has a zero denominator; a degenerate segment's
\* loop assigns nothing, so the weight at binCenter is the 1 written by the
\* other segment when only one is degenerate, and the whole filter is 0
\* when binLeft == binCenter == binRight.
C8_DegenerateSegmentsNotAssigned ==
    \A i \in DOMAIN melFilterbank :
        LET f == melFilterbank[i]
            binLeft == bins[i][1]
            binCenter == bins[i][2]
            binRight == bins[i][3]
        IN  /\ \A j \in DOMAIN f : f[j][2] # 0
            /\ (binCenter = binLeft /\ binRight = binCenter) =>
                  \A j \in DOMAIN f : f[j] = ZeroWeight
            /\ (binCenter = binLeft /\ binRight > binCenter) =>
                  /\ f[binCenter] = <<binRight - binCenter, binRight - binCenter>>
                  /\ \A j \in DOMAIN f : j < binCenter => f[j] = ZeroWeight
            /\ (binCenter > binLeft /\ binRight = binCenter) =>
                  /\ f[binCenter] = <<binCenter - binLeft, binCenter - binLeft>>
                  /\ \A j \in DOMAIN f : j > binCenter => f[j] = ZeroWeight

C8_Witness ==
    \E i, k \in DOMAIN melFilterbank :
        /\ bins[i][1] = bins[i][2] /\ bins[i][2] = bins[i][3]
        /\ \A j \in DOMAIN melFilterbank[i] : melFilterbank[i][j] = ZeroWeight
        /\ bins[k][1] = bins[k][2] /\ bins[k][2] < bins[k][3]
        /\ melFilterbank[k][bins[k][2]][1] = melFilterbank[k][bins[k][2]][2]

\* C9: for a power-of-two length L computeFFT applies the bit-reversal
\* permutation once, then runs log2(L) passes with len = 2, 4, ..., L; in
\* each pass every position of [0, L-1] belongs to exactly one pair
\* (a, a + len/2), and no index outside [0, L-1] is accessed.
C9_FFTStructure ==
    \A c \in Callers :
        (Started(c, AfterFFT) /\ IsPowerOfTwo(Size(paddedSamples[c]))) =>
            LET L == Size(paddedSamples[c])
                t == spectrum[c]
            IN  /\ DOMAIN t.permuted = 0..(L - 1)
                /\ \A i \in 0..(L - 1) :
                      t.permuted[i].src = {BitReversed(i, Log2(L))}
                /\ \A m \in 1..Len(t.swaps) :
                      t.swaps[m][1] \in 0..(L - 1) /\ t.swaps[m][2] \in 0..(L - 1)
                /\ Len(t.passes) = Log2(L)
                /\ \A k \in 1..Len(t.passes) :
                      LET len == t.passes[k].len
                          pairs == t.passes[k].pairs
                      IN  /\ len = 2 ^ k
                          /\ \A m \in 1..Len(pairs) :
                                /\ pairs[m][1] \in 0..(L - 1)
                                /\ pairs[m][2] \in 0..(L - 1)
                                /\ pairs[m][2] = pairs[m][1] + len \div 2
                          /\ \A q \in 0..(L - 1) :
                                Cardinality({m \in 1..Len(pairs) :
                                    pairs[m][1] = q \/ pairs[m][2] = q}) = 1

C9_Witness ==
    \E c \in Callers :
        /\ Started(c, AfterFFT)
        /\ Size(paddedSamples[c]) = 8
        /\ Len(spectrum[c].passes) = 3
        /\ spectrum[c].permuted[1].src = {4}
        /\ Len(spectrum[c].passes[3].pairs) = 4

\* C10: for every n in the non-negative int range the doubling loop of
\* nextPowerOf2 reaches power >= n without ever computing a product that
\* overflows int, so the call goes on to return.
C10_NextPowerOf2NeverOverflows ==
    /\ npPc # "trapped"
    /\ power >= 1
    /\ (npPc = "loop" /\ power < argN) => ~DoubleOverflows(power)

====
